---- MODULE Spec2Model ----
(***************************************************************************)
(* A model of src/reolink_video.py (class ReolinkVideo): the classifier    *)
(* of one detection, the strided scan loop of is_accepted and the parsing  *)
(* of a recording's filename.                                              *)
(*                                                                         *)
(* Python values are encoded as follows.  A str is a tuple of one-         *)
(* character strings.  A value that may be None is an option: None is the  *)
(* empty tuple and a value x that is present is <<x>>.                     *)
(***************************************************************************)
EXTENDS Integers, Sequences, FiniteSets, TLC

None == <<>>
Some(x) == <<x>>

Range(s) == {s[i] : i \in 1..Len(s)}

\* ------------------------------------------------------------------------
\* Bounds of the model
\* ------------------------------------------------------------------------

\* The longest video stream, in frames.
MaxFrames == 40

\* Coordinates of bounding boxes and of ROI vertices lie in 0..MaxCoord.
MaxCoord == 4

\* ------------------------------------------------------------------------
\* str.rsplit
\* ------------------------------------------------------------------------

\* The start of the rightmost occurrence of sep in s, 0 when there is none.
RFind(s, sep) ==
    LET hits == {i \in 1..(Len(s) - Len(sep) + 1) :
                    SubSeq(s, i, i + Len(sep) - 1) = sep}
    IN  IF hits = {} THEN 0 ELSE CHOOSE i \in hits : \A j \in hits : j <= i

\* s.rsplit(sep, maxsplit): at most maxsplit splits, taken from the right;
\* maxsplit = -1 is Python's default, no limit.
RECURSIVE RSplit(_, _, _)
RSplit(s, sep, maxsplit) ==
    LET i == RFind(s, sep)
    IN  IF maxsplit = 0 \/ i = 0
        THEN <<s>>
        ELSE RSplit(SubSeq(s, 1, i - 1), sep, maxsplit - 1)
                \o <<SubSeq(s, i + Len(sep), Len(s))>>

\* ------------------------------------------------------------------------
\* Configuration of the process (os.environ) and inputs
\* ------------------------------------------------------------------------

\* Values of the environment variable VALID_DETECTION_LABELS: lists with a
\* space after the comma and without, and a list of one label.
LabelEnvs ==
    { <<"c","a","t",","," ","d","o","g">>,
      <<"c","a","t",",","d","o","g">>,
      <<"d","o","g">> }

\* Labels the detection capability reports.
Labels ==
    { <<"c","a","t">>, <<"C","a","t">>, <<"d","o","g">>, <<"o","w","l">> }

\* Confidence, in tenths.
Confidences == {2, 9}

Coords == 0..MaxCoord

\* A polygon is the tuple of its vertices <<x, y>>.  The regions of interest
\* a caller passes: a square, a right triangle and an isosceles triangle.
ROIs ==
    { << <<1,1>>, <<3,1>>, <<3,3>>, <<1,3>> >>,
      << <<1,1>>, <<3,1>>, <<1,3>> >>,
      << <<1,0>>, <<3,0>>, <<2,2>> >> }

RoiArgs == {None} \cup {Some(r) : r \in ROIs}

\* deepstack_sdk's detection: a label, a confidence and a bounding box.
Detections ==
    [label : Labels, confidence : Confidences,
     x_min : Coords, y_min : Coords, x_max : Coords, y_max : Coords]

\* ------------------------------------------------------------------------
\* Geometry: shapely's box and intersects
\* ------------------------------------------------------------------------

\* shapely.geometry.box(minx, miny, maxx, maxy): the rectangle's ring.
box(minx, miny, maxx, maxy) ==
    << <<maxx, miny>>, <<maxx, maxy>>, <<minx, maxy>>, <<minx, miny>> >>

Dot(p, q) == p[1] * q[1] + p[2] * q[2]

\* The normals of the edges of polygon poly.
EdgeNormals(poly) ==
    { LET p == poly[i]
          q == poly[(i % Len(poly)) + 1]
      IN  <<p[2] - q[2], q[1] - p[1]>> : i \in 1..Len(poly) }

\* The projections of a and b on axis are intervals that meet.
ProjectionsMeet(a, b, axis) ==
    LET pa == {Dot(a[i], axis) : i \in 1..Len(a)}
        pb == {Dot(b[i], axis) : i \in 1..Len(b)}
    IN  /\ \E u \in pa : \E v \in pb : u >= v
        /\ \E u \in pa : \E v \in pb : u <= v

\* A variant of intersects for which touching does not count.
StrictProjectionsMeet(a, b, axis) ==
    LET pa == {Dot(a[i], axis) : i \in 1..Len(a)}
        pb == {Dot(b[i], axis) : i \in 1..Len(b)}
    IN  /\ \E u \in pa : \E v \in pb : u > v
        /\ \E u \in pa : \E v \in pb : u < v

intersects_interiors(a, b) ==
    \A axis \in EdgeNormals(a) \cup EdgeNormals(b) :
        StrictProjectionsMeet(a, b, axis)

\* a.intersects(b) for a convex a (a point or a segment when degenerate) and
\* a convex b of non-zero area: the closed sets share a point iff no edge
\* normal of either separates them.  Touching counts.
intersects(a, b) ==
    \A axis \in EdgeNormals(a) \cup EdgeNormals(b) : ProjectionsMeet(a, b, axis)

\* ------------------------------------------------------------------------
\* datetime.strptime(s, "%Y%m%d%H%M%S")
\* ------------------------------------------------------------------------

Digits == <<"0", "1", "2", "3", "4", "5", "6", "7", "8", "9">>

IsDigit(c) == c \in Range(Digits)

DigitValue(c) == (CHOOSE i \in 1..Len(Digits) : Digits[i] = c) - 1

\* The two characters a, b match a two-character alternative of the regular
\* expression of directive k: 2 for %m (1[0-2]|0[1-9]), 3 for %d
\* (3[0-1]|[1-2]\d|0[1-9]| [1-9]), 4 for %H (2[0-3]|[0-1]\d), 5 for %M
\* ([0-5]\d) and 6 for %S (6[0-1]|[0-5]\d).
MatchesTwo(k, a, b) ==
    IF k = 3 /\ a = " "
    THEN IsDigit(b) /\ b # "0"
    ELSE /\ IsDigit(a)
         /\ IsDigit(b)
         /\ LET n == 10 * DigitValue(a) + DigitValue(b)
            IN  CASE k = 2 -> n \in 1..12
                  [] k = 3 -> n \in 1..31
                  [] k = 4 -> n \in 0..23
                  [] k = 5 -> n \in 0..59
                  [] k = 6 -> n \in 0..61

\* The character a matches the one-character alternative of directive k:
\* [1-9] for %m and %d, \d for %H, %M and %S.
MatchesOne(k, a) == IsDigit(a) /\ (k \in {2, 3} => a # "0")

TwoValue(a, b) == (IF a = " " THEN 0 ELSE 10 * DigitValue(a)) + DigitValue(b)

\* The match of directives k..6 at position pos of s, as the regular
\* expression engine finds it: the two-character alternatives are tried
\* first, and an alternative is given up when the rest cannot match.  None
\* when there is no match, else Some of the values of the directives
\* followed by the position after the match.
RECURSIVE MatchFrom(_, _, _)
MatchFrom(s, pos, k) ==
    IF k > 6
    THEN Some(<<pos>>)
    ELSE LET two == IF pos + 1 <= Len(s) /\ MatchesTwo(k, s[pos], s[pos + 1])
                    THEN MatchFrom(s, pos + 2, k + 1)
                    ELSE None
             one == IF pos <= Len(s) /\ MatchesOne(k, s[pos])
                    THEN MatchFrom(s, pos + 1, k + 1)
                    ELSE None
         IN  IF two # None
             THEN Some(<<TwoValue(s[pos], s[pos + 1])>> \o two[1])
             ELSE IF one # None
                  THEN Some(<<DigitValue(s[pos])>> \o one[1])
                  ELSE None

IsLeap(year) == year % 4 = 0 /\ (year % 100 # 0 \/ year % 400 = 0)

DaysIn(year, month) ==
    IF month = 2
    THEN (IF IsLeap(year) THEN 29 ELSE 28)
    ELSE IF month \in {4, 6, 9, 11} THEN 30 ELSE 31

DateTime(Y, m, d, H, M, S) ==
    [year |-> Y, month |-> m, day |-> d, hour |-> H, minute |-> M,
     second |-> S]

\* None when strptime raises ValueError: the string does not match the
\* format, data remains after the match, or the fields are no datetime.
strptime(s) ==
    IF Len(s) < 4 \/ \E i \in 1..4 : ~IsDigit(s[i])
    THEN None
    ELSE LET year == 1000 * DigitValue(s[1]) + 100 * DigitValue(s[2])
                        + 10 * DigitValue(s[3]) + DigitValue(s[4])
             rest == MatchFrom(s, 5, 2)
         IN  IF rest = None
             THEN None
             ELSE LET f == rest[1]
                  IN  IF \/ f[6] # Len(s) + 1
                         \/ year < 1
                         \/ f[2] > DaysIn(year, f[1])
                         \/ f[5] > 59
                      THEN None
                      ELSE Some(DateTime(year, f[1], f[2], f[3], f[4], f[5]))

VARIABLES
    environ,                 \* os.environ
    VALID_DETECTION_LABELS,  \* the class attribute, a list of str
    verdict,                 \* the last call of _is_accepted_detection
    split,                   \* the last call of split_reolink_filename
    found,                   \* the video files found, to make instances of
    clips,                   \* the instances of ReolinkVideo, as constructed
    friendly,                \* the last call of friendly_filename
    disk,                    \* the files of the filesystem
    moves,                   \* the calls of move
    export,                  \* the last call of save_images_from_frame
    pc,                      \* where the call of is_accepted stands
    roi,                     \* is_accepted's argument roi
    min_confidence,          \* is_accepted's argument min_confidence
    frame_count,             \* the number of frames of the video file
    video,                   \* the cv2.VideoCapture of the call
    current_frame,
    target_frame,
    read_ok,
    frame,
    response,
    result,                  \* what is_accepted returned
    raised,                  \* the exception that left is_accepted
    log,                     \* the records given to logging
    calls,                   \* the calls of deepstack.detectObject
    sampled_hit,             \* history: see VideoRead
    off_sample_hit           \* history: see VideoRead

scan_vars ==
    <<pc, roi, min_confidence, frame_count, video, current_frame,
      target_frame, read_ok, frame, response, result, raised, log, calls,
      sampled_hit, off_sample_hit>>

\* The instances and the files.
clip_vars == <<found, clips, friendly, disk, moves, export>>

\* What a scan leaves alone.
class_vars == <<environ, VALID_DETECTION_LABELS, verdict, split, clip_vars>>

vars == <<class_vars, scan_vars>>

\* ------------------------------------------------------------------------
\* The classifier of one detection (lines 77-92)
\* ------------------------------------------------------------------------

\* A variant of _detection_in_roi that gives box its arguments in the order
\* x_min, x_max, y_min, y_max.
_detection_in_roi_swapped(detection, region) ==
    intersects(box(detection.x_min, detection.x_max,
                   detection.y_min, detection.y_max), region)

\* Lines 77-84.
_detection_in_roi(detection, region) ==
    intersects(box(detection.x_min, detection.y_min,
                   detection.x_max, detection.y_max), region)

\* A variant of _is_accepted_detection that compares labels without regard
\* to case.
Lower(str) == [i \in 1..Len(str) |-> IF str[i] = "C" THEN "c" ELSE str[i]]

_is_accepted_detection_caseless(detection, region) ==
    IF Lower(detection.label) \notin Range(VALID_DETECTION_LABELS)
    THEN FALSE
    ELSE IF region = None
         THEN TRUE
         ELSE _detection_in_roi(detection, region[1])

\* A variant of _is_accepted_detection that also wants the confidence to
\* reach the minimum of the scan.
_is_accepted_detection_confident(detection, region) ==
    IF detection.label \notin Range(VALID_DETECTION_LABELS)
          \/ detection.confidence < min_confidence
    THEN FALSE
    ELSE IF region = None
         THEN TRUE
         ELSE _detection_in_roi(detection, region[1])

\* Lines 86-92.  region, the argument roi, is an option: None or
\* Some(polygon).
_is_accepted_detection(detection, region) ==
    IF detection.label \notin Range(VALID_DETECTION_LABELS)
    THEN FALSE
    ELSE IF region = None
         THEN TRUE
         ELSE _detection_in_roi(detection, region[1])

\* ------------------------------------------------------------------------
\* The instance and its file (lines 18-32 and 58-64)
\* ------------------------------------------------------------------------

\* The directory the videos are found in.
SourceDir == <<"i", "n">>

Extensions == { <<"m", "p", "4">>, <<"a", "v", "i">> }

\* The argument extension of friendly_filename: None is its default.
ExtensionArgs == {None, Some(<<"j", "p", "g">>), Some(<<>>)}

\* os.path.join(path, name), for a path that does not end in "/" and a name
\* that does not begin with it.
join(path, name) == path \o <<"/">> \o name

\* A video file as it is found: the arguments of __init__.
VideoFile(path, filename, extension) ==
    [path |-> path, filename |-> filename, extension |-> extension]

\* Lines 18-32: the instance __init__ makes of file f, the call of
\* split_reolink_filename having returned the triple t.
Instance(f, t) ==
    [path |-> f.path, filename |-> f.filename, extension |-> f.extension,
     camera_name |-> t.camera_name, camera_num |-> t.camera_num,
     timestamp |-> t.timestamp]

\* Lines 58-60.
filename_with_ext(self) == self.filename \o <<".">> \o self.extension

\* Lines 62-64.
full_path(self) == join(self.path, filename_with_ext(self))

\* The file of content c at path p.
File(p, c) == [path |-> p, content |-> c]

\* Lines 105-107: the frames cv2.VideoCapture(self.full_path) gives.  The
\* file of an instance that is no longer at full_path gives none.
StreamLength ==
    IF clips = <<>> \/ \E f \in disk : f.path = full_path(clips[1])
    THEN frame_count
    ELSE 0

\* ------------------------------------------------------------------------
\* The scan of a video (is_accepted, lines 98-136)
\* ------------------------------------------------------------------------

Skip == 15

\* The detections of the scenes of a video.
Owl == [label |-> <<"o","w","l">>, confidence |-> 9,
        x_min |-> 2, y_min |-> 2, x_max |-> 2, y_max |-> 2]
CatInside == [label |-> <<"c","a","t">>, confidence |-> 9,
              x_min |-> 2, y_min |-> 1, x_max |-> 3, y_max |-> 2]
CatOutside == [label |-> <<"c","a","t">>, confidence |-> 2,
               x_min |-> 4, y_min |-> 4, x_max |-> 4, y_max |-> 4]
DogTouching == [label |-> <<"d","o","g">>, confidence |-> 2,
                x_min |-> 0, y_min |-> 0, x_max |-> 1, y_max |-> 1]

\* What the detection capability answers for a frame: its detections, in
\* the detector's order.
Scenes ==
    { <<>>, <<Owl>>, <<CatOutside>>, <<Owl, CatInside, DogTouching>>,
      <<CatOutside, DogTouching>> }

\* The frame at position i of a video: an image cv2.imencode can encode,
\* showing a scene, or one it cannot.
FramesAt(i) ==
    {[index |-> i, encodable |-> TRUE, scene |-> s] : s \in Scenes}
        \cup {[index |-> i, encodable |-> FALSE, scene |-> <<>>]}

MinConfidences == {5, 8}

ScanRois == {None, Some(<< <<1,1>>, <<3,1>>, <<3,3>>, <<1,3>> >>)}

\* The position in response of its first accepted detection, 0 when it has
\* none (the for loop of lines 118-119).
FirstAccepted(detections, r) ==
    LET hits == {i \in 1..Len(detections) :
                    _is_accepted_detection(detections[i], r)}
    IN  IF hits = {} THEN 0 ELSE CHOOSE i \in hits : \A j \in hits : i <= j

\* History: frame f, were it analysed, would be accepted.
Hit(f, r) == f.encodable /\ FirstAccepted(f.scene, r) # 0

\* History: i is one of the indices 1, 16, 31, ...
IsSampleIndex(i) == i % 15 = 1

\* A variant of VideoRead that first seeks the target frame, as
\* video.set(cv2.CAP_PROP_POS_FRAMES, ...) would.
VideoReadSeeking(r) ==
    LET at == IF target_frame > video.pos + 1 THEN target_frame
              ELSE video.pos + 1
    IN  IF video.released = 0 /\ at <= StreamLength
        THEN \E f \in FramesAt(at) :
                /\ read_ok' = TRUE
                /\ frame' = Some(f)
                /\ video' = [video EXCEPT !.pos = at, !.reads = @ + 1]
                /\ sampled_hit' =
                      IF sampled_hit = 0 /\ IsSampleIndex(f.index) /\ Hit(f, r)
                      THEN f.index ELSE sampled_hit
                /\ off_sample_hit' =
                      (off_sample_hit \/ (~IsSampleIndex(f.index) /\ Hit(f, r)))
        ELSE /\ read_ok' = FALSE
             /\ frame' = None
             /\ video' = [video EXCEPT !.reads = @ + 1,
                                       !.read_after_release =
                                           (@ \/ video.released > 0)]
             /\ UNCHANGED <<sampled_hit, off_sample_hit>>

\* video.read(), storing into read_ok and frame, in a scan with ROI r.  A
\* released capture reads nothing.  sampled_hit keeps the lowest sample index whose frame, read so
\* far, is a hit, and off_sample_hit whether a frame off the sample indices
\* is one.
VideoRead(r) ==
    IF video.released = 0 /\ video.pos < StreamLength
    THEN \E f \in FramesAt(video.pos + 1) :
            /\ read_ok' = TRUE
            /\ frame' = Some(f)
            /\ video' = [video EXCEPT !.pos = @ + 1, !.reads = @ + 1]
            /\ sampled_hit' =
                  IF sampled_hit = 0 /\ IsSampleIndex(f.index) /\ Hit(f, r)
                  THEN f.index ELSE sampled_hit
            /\ off_sample_hit' =
                  (off_sample_hit \/ (~IsSampleIndex(f.index) /\ Hit(f, r)))
    ELSE /\ read_ok' = FALSE
         /\ frame' = None
         /\ video' = [video EXCEPT !.reads = @ + 1,
                                   !.read_after_release =
                                       (@ \/ video.released > 0)]
         /\ UNCHANGED <<sampled_hit, off_sample_hit>>

\* A variant of Released that leaves the capture open.
ReleasedNever(v) == v

\* video.release()
Released(v) == [v EXCEPT !.released = @ + 1]

\* A variant of StartLog that logs no error.
StartLogSilent(ok) == <<[level |-> "info", event |-> "ANALYSING"]>>

\* Lines 104 and 110-111: what the start of a scan logs, ok being the
\* outcome of the first read.
StartLog(ok) ==
    IF ok
    THEN <<[level |-> "info", event |-> "ANALYSING"]>>
    ELSE <<[level |-> "info", event |-> "ANALYSING"],
           [level |-> "error", event |-> "Unable to read"]>>

\* Lines 104-111: open the file, set the counters, read the first frame.
Start ==
    /\ pc = "idle"
    /\ \E r \in ScanRois, m \in MinConfidences :
          /\ roi' = r
          /\ min_confidence' = m
    /\ current_frame' = 1
    /\ target_frame' = 1
    /\ VideoRead(roi')
    /\ log' = StartLog(read_ok')
    /\ pc' = "while"
    /\ UNCHANGED <<class_vars, frame_count, response, result, raised, calls>>

\* A variant of NextTarget that skips one frame more.
NextTargetDrifting(t) == t + Skip + 1

\* Line 130: the next target frame.
NextTarget(t) == t + Skip

\* The failures of the detection capability.
DetectorErrors == {"ConnectionError", "Timeout"}

EncodeError == "Exception: Failed to convert numpy array to image."

\* _frame_to_bytes(frame) succeeds (lines 71-75).
CanEncode(f) == f.encodable

\* One call of deepstack.detectObject, on the bytes of the frame at index i:
\* error is "" when the call answers.
Call(i, m, e) == [index |-> i, min_confidence |-> m, error |-> e]

\* A variant of TargetReached that has every frame analysed.
TargetReachedAlways == TRUE

\* Line 114: the frame read is the target frame.
TargetReached == current_frame = target_frame

\* A variant of AcceptedResult that returns the accepted detection alone.
AcceptedResultTrimmed(f, resp) ==
    [accepted |-> TRUE, frame |-> Some(f),
     response |-> Some(<<resp[FirstAccepted(resp, roi)]>>)]

\* Line 129: the result of an accepting scan, f being the frame and resp the
\* response to it.
AcceptedResult(f, resp) ==
    [accepted |-> TRUE, frame |-> Some(f), response |-> Some(resp)]

\* Lines 113 and 134-136: the loop ends, the scan rejects.
Reject ==
    /\ pc = "while"
    /\ read_ok # TRUE
    /\ log' = Append(log, [level |-> "info", event |-> "REJECTED"])
    /\ video' = Released(video)
    /\ result' = Some([accepted |-> FALSE, frame |-> None, response |-> None])
    /\ pc' = "returned"
    /\ UNCHANGED <<class_vars, roi, min_confidence, frame_count, current_frame,
                   target_frame, read_ok, frame, response, raised, calls,
                   sampled_hit, off_sample_hit>>

\* Line 114: the frame is not the target frame.
NotTarget ==
    /\ pc = "while"
    /\ read_ok = TRUE
    /\ ~TargetReached
    /\ pc' = "advance"
    /\ UNCHANGED <<class_vars, roi, min_confidence, frame_count, video, current_frame,
                   target_frame, read_ok, frame, response, result, raised,
                   log, calls, sampled_hit, off_sample_hit>>

\* Lines 114-116 and 71-74: the target frame cannot be encoded.
EncodeFails ==
    /\ pc = "while"
    /\ read_ok = TRUE
    /\ TargetReached
    /\ ~CanEncode(frame[1])
    /\ raised' = Some(EncodeError)
    /\ pc' = "raised"
    /\ UNCHANGED <<class_vars, roi, min_confidence, frame_count, video, current_frame,
                   target_frame, read_ok, frame, response, result, log,
                   calls, sampled_hit, off_sample_hit>>

\* A variant of DetectFails that takes the failure for an empty response
\* and goes on.
DetectFailsSwallowed ==
    /\ pc = "while"
    /\ read_ok = TRUE
    /\ TargetReached
    /\ CanEncode(frame[1])
    /\ \E e \in DetectorErrors :
          calls' = Append(calls, Call(frame[1].index, min_confidence, e))
    /\ target_frame' = NextTarget(target_frame)
    /\ pc' = "advance"
    /\ UNCHANGED <<class_vars, roi, min_confidence, frame_count, video, current_frame,
                   read_ok, frame, response, result, raised, log,
                   sampled_hit, off_sample_hit>>

\* Lines 114-117: the detection capability fails on the target frame.
DetectFails ==
    /\ pc = "while"
    /\ read_ok = TRUE
    /\ TargetReached
    /\ CanEncode(frame[1])
    /\ \E e \in DetectorErrors :
          /\ calls' = Append(calls, Call(frame[1].index, min_confidence, e))
          /\ raised' = Some(e)
    /\ pc' = "raised"
    /\ UNCHANGED <<class_vars, roi, min_confidence, frame_count, video, current_frame,
                   target_frame, read_ok, frame, response, result, log,
                   sampled_hit, off_sample_hit>>

\* Lines 114-129: the response to the target frame has an accepted
\* detection.
Accept ==
    /\ pc = "while"
    /\ read_ok = TRUE
    /\ TargetReached
    /\ CanEncode(frame[1])
    /\ calls' = Append(calls, Call(frame[1].index, min_confidence, ""))
    /\ response' = Some(frame[1].scene)
    /\ FirstAccepted(response'[1], roi) # 0
    /\ LET detection == response'[1][FirstAccepted(response'[1], roi)]
       IN  log' = Append(log, [level |-> "info", event |-> "ACCEPTED",
                               label |-> detection.label,
                               percent |-> 10 * detection.confidence])
    /\ video' = Released(video)
    /\ result' = Some(AcceptedResult(frame[1], response'[1]))
    /\ pc' = "returned"
    /\ UNCHANGED <<class_vars, roi, min_confidence, frame_count, current_frame,
                   target_frame, read_ok, frame, raised, sampled_hit,
                   off_sample_hit>>

\* A variant of NoAccept that leaves the target frame where it is.
NoAcceptKeepingTarget ==
    /\ pc = "while"
    /\ read_ok = TRUE
    /\ TargetReached
    /\ CanEncode(frame[1])
    /\ calls' = Append(calls, Call(frame[1].index, min_confidence, ""))
    /\ response' = Some(frame[1].scene)
    /\ FirstAccepted(response'[1], roi) = 0
    /\ pc' = "advance"
    /\ UNCHANGED <<class_vars, roi, min_confidence, frame_count, video,
                   current_frame, target_frame, read_ok, frame, result,
                   raised, log, sampled_hit, off_sample_hit>>

\* Lines 114-119 and 130: the response to the target frame has no accepted
\* detection.
NoAccept ==
    /\ pc = "while"
    /\ read_ok = TRUE
    /\ TargetReached
    /\ CanEncode(frame[1])
    /\ calls' = Append(calls, Call(frame[1].index, min_confidence, ""))
    /\ response' = Some(frame[1].scene)
    /\ FirstAccepted(response'[1], roi) = 0
    /\ target_frame' = NextTarget(target_frame)
    /\ pc' = "advance"
    /\ UNCHANGED <<class_vars, roi, min_confidence, frame_count, video, current_frame,
                   read_ok, frame, result, raised, log, sampled_hit,
                   off_sample_hit>>

\* A variant of Advance that does not count the frame.
AdvanceNotCounting ==
    /\ pc = "advance"
    /\ VideoRead(roi)
    /\ pc' = "while"
    /\ UNCHANGED <<class_vars, roi, min_confidence, frame_count,
                   current_frame, target_frame, response, result, raised,
                   log, calls>>

\* Lines 131-132: read the next frame.
Advance ==
    /\ pc = "advance"
    /\ VideoRead(roi)
    /\ current_frame' = current_frame + 1
    /\ pc' = "while"
    /\ UNCHANGED <<class_vars, roi, min_confidence, frame_count, target_frame, response,
                   result, raised, log, calls>>

\* The environment with VALID_DETECTION_LABELS set to labels, and CAMERA_1
\* set to camera when camera is not None.
Environ(labels, camera) ==
    [VALID_DETECTION_LABELS |-> labels, CAMERA_1 |-> camera]

DefaultCamera == <<"Y","a","r","d">>

\* No file is found yet and no instance is made.
NoClip ==
    /\ found = {}
    /\ clips = <<>>
    /\ friendly = None
    /\ disk = {}
    /\ moves = <<>>
    /\ export = None

\* The state before is_accepted is called: the class is defined (line 16),
\* the instance names a video file of frame_count frames.
ScanIdle ==
    /\ pc = "idle"
    /\ roi = None
    /\ min_confidence = 0
    /\ video = [released |-> 0, pos |-> 0, reads |-> 0,
                read_after_release |-> FALSE]
    /\ current_frame = 0
    /\ target_frame = 0
    /\ read_ok = FALSE
    /\ frame = None
    /\ response = None
    /\ result = None
    /\ raised = None
    /\ log = <<>>
    /\ calls = <<>>
    /\ sampled_hit = 0
    /\ off_sample_hit = FALSE

Init ==
    /\ \E labels \in LabelEnvs :
          /\ environ = Environ(labels, Some(DefaultCamera))
          /\ VALID_DETECTION_LABELS = RSplit(labels, <<",", " ">>, -1)
    /\ verdict = None
    /\ split = None
    /\ NoClip
    /\ frame_count \in 0..MaxFrames
    /\ ScanIdle

Next ==
    \/ Start
    \/ Reject
    \/ NotTarget
    \/ EncodeFails
    \/ DetectFails
    \/ Accept
    \/ NoAccept
    \/ Advance

Spec == Init /\ [][Next]_vars

\* The scan is one thread of control: a step that can be taken is taken.
SpecFair == Spec /\ WF_vars(Next)

\* ------------------------------------------------------------------------
\* The parsing of a filename (split_reolink_filename, lines 34-52)
\* ------------------------------------------------------------------------

\* What a call gives: value is Some of the triple it returns and raised is
\* None, or value is None and raised is Some of the exception.
Returns(camera_name, camera_num, timestamp) ==
    [value |-> Some([camera_name |-> camera_name, camera_num |-> camera_num,
                     timestamp |-> timestamp]),
     raised |-> None]

Raises(exception) == [value |-> None, raised |-> Some(exception)]

\* Lines 44-50, the except clause: os.environ["CAMERA_1"] raises KeyError
\* when the variable is not set.
Fallback ==
    IF environ.CAMERA_1 = None
    THEN Raises("KeyError")
    ELSE Returns(environ.CAMERA_1[1], <<"0", "1">>,
                 DateTime(2000, 1, 1, 1, 0, 0))

\* Lines 37-43, the try clause, succeeds: the filename has three parts and
\* the third is a timestamp.
Parses(filename) ==
    LET filename_parts == RSplit(filename, <<"_">>, 2)
    IN  /\ Len(filename_parts) = 3
        /\ strptime(filename_parts[3]) # None

\* A variant of split_reolink_filename that splits from the left:
\* filename.split("_", 2).
LFind(s, sep) ==
    LET hits == {i \in 1..(Len(s) - Len(sep) + 1) :
                    SubSeq(s, i, i + Len(sep) - 1) = sep}
    IN  IF hits = {} THEN 0 ELSE CHOOSE i \in hits : \A j \in hits : i <= j

RECURSIVE LSplit(_, _, _)
LSplit(s, sep, maxsplit) ==
    LET i == LFind(s, sep)
    IN  IF maxsplit = 0 \/ i = 0
        THEN <<s>>
        ELSE <<SubSeq(s, 1, i - 1)>>
                \o LSplit(SubSeq(s, i + Len(sep), Len(s)), sep, maxsplit - 1)

split_reolink_filename_from_left(filename) ==
    LET filename_parts == LSplit(filename, <<"_">>, 2)
    IN  IF Len(filename_parts) = 3 /\ strptime(filename_parts[3]) # None
        THEN Returns(filename_parts[1], filename_parts[2],
                     strptime(filename_parts[3])[1])
        ELSE Fallback

\* Lines 34-52.
split_reolink_filename(filename) ==
    LET filename_parts == RSplit(filename, <<"_">>, 2)
    IN  IF Parses(filename)
        THEN Returns(filename_parts[1], filename_parts[2],
                     strptime(filename_parts[3])[1])
        ELSE Fallback

\* The names of the cameras, the camera numbers and the timestamps of the
\* filenames given.
CameraNames == { <<>>, <<"F">>, <<"F", "_", "D">> }

CameraNums == { <<"0", "1">>, <<"7">> }

Stamps ==
    { <<"2","0","2","1","0","5","1","1","0","8","2","7","2","1">>,
      <<"2","0","0","0","0","1","0","1","0","1","0","0","0","0">>,
      <<"2","0","2","1","0","5","1","1","0","8","2","7","2">>,
      <<"2","0","2","1","0","5","1","1","0","8","2","7","2","1","0">>,
      <<"2","0","2","1","1","3","0","5","0","8","2","7","2","1">>,
      <<"2","0","2","1","0","2","3","0","0","8","2","7","2","1">>,
      <<"2","0","2","0","0","2","2","9","0","8","2","7","2","1">>,
      <<"2","0","2","1","0","5","1","1","0","8","2","7","6","0">>,
      <<"0","0","0","0","0","5","1","1","0","8","2","7","2","1">>,
      <<"2","0","2","1","0","5","1","1","0","8","2","7","2","x">>,
      <<"2","0","2","1"," ","5","1","1","0","8","2","7","2","1">>,
      <<"0","9","9","9","0","1","0","1","0","0","0","0","0","0">>,
      <<"2","0","2","1","1","2","3","1","2","3","5","9","5","9">>,
      <<"m","p","4">>,
      <<>> }

\* Filenames of three parts, of two parts and of one part.
Filenames ==
    {n \o <<"_">> \o c \o <<"_">> \o t :
        n \in CameraNames, c \in CameraNums, t \in Stamps}
        \cup {c \o <<"_">> \o t : c \in CameraNums, t \in Stamps}
        \cup Stamps

\* One call of split_reolink_filename(filename).
Split ==
    /\ split = None
    /\ \E filename \in Filenames :
          split' = Some([filename |-> filename,
                         outcome |-> split_reolink_filename(filename)])
    /\ UNCHANGED <<environ, VALID_DETECTION_LABELS, verdict, clip_vars,
                   scan_vars>>

\* The class is defined; CAMERA_1 is set or is not.
InitParse ==
    /\ \E labels \in LabelEnvs, camera \in {None, Some(DefaultCamera)} :
          /\ environ = Environ(labels, camera)
          /\ VALID_DETECTION_LABELS = RSplit(labels, <<",", " ">>, -1)
    /\ verdict = None
    /\ split = None
    /\ NoClip
    /\ frame_count = 0
    /\ ScanIdle

NextParse == Split

SpecParse == InitParse /\ [][NextParse]_vars

\* C10: split_reolink_filename returns a triple and raises nothing, whatever
\* the filename and whether CAMERA_1 is set or not; for a filename that does
\* not parse the triple is the default camera name, "01" and 2000-01-01
\* 01:00:00.
C10_FallbackNeverRaises ==
    split # None =>
        LET out == split[1].outcome
        IN  /\ out.raised = None
            /\ out.value # None
            /\ ~Parses(split[1].filename) =>
                  /\ environ.CAMERA_1 # None
                  /\ out.value[1] =
                        [camera_name |-> environ.CAMERA_1[1],
                         camera_num |-> <<"0", "1">>,
                         timestamp |-> DateTime(2000, 1, 1, 1, 0, 0)]

\* ------------------------------------------------------------------------
\* Calls of the classifier alone
\* ------------------------------------------------------------------------

\* The detections whose box has x_min <= x_max and y_min <= y_max.
BoxedDetections ==
    {d \in Detections : d.x_min <= d.x_max /\ d.y_min <= d.y_max}

\* One call of _is_accepted_detection(detection, roi).
Classify ==
    /\ verdict = None
    /\ \E d \in BoxedDetections, r \in RoiArgs :
          verdict' = Some([detection |-> d, roi |-> r,
                           accepted |-> _is_accepted_detection(d, r)])
    /\ UNCHANGED <<environ, VALID_DETECTION_LABELS, split, clip_vars,
                   scan_vars>>

InitClassifier ==
    /\ \E labels \in LabelEnvs :
          /\ environ = Environ(labels, Some(DefaultCamera))
          /\ VALID_DETECTION_LABELS = RSplit(labels, <<",", " ">>, -1)
    /\ verdict = None
    /\ split = None
    /\ NoClip
    /\ frame_count = 0
    /\ ScanIdle

NextClassifier == Classify

SpecClassifier == InitClassifier /\ [][NextClassifier]_vars

\* ------------------------------------------------------------------------
\* Properties of the classifier
\* ------------------------------------------------------------------------

\* The points of the plane with coordinates k/2, k in 0..2*MaxCoord, written
\* <<2x, 2y>>.  The vertices of the intersection of a box and a polygon of
\* ROIs are among them: the edges of the polygons have slope 0, 1, 2, their
\* inverses or opposites.
HalfPoints == (0..(2 * MaxCoord)) \X (0..(2 * MaxCoord))

\* Twice the cross product of edge a -> b with a -> p/2.
Side(a, b, p) ==
    (b[1] - a[1]) * (p[2] - 2 * a[2]) - (b[2] - a[2]) * (p[1] - 2 * a[1])

\* p/2 lies in the closed convex polygon poly: on one side of every edge.
InPolygon(p, poly) ==
    LET sides == {Side(poly[i], poly[(i % Len(poly)) + 1], p) :
                     i \in 1..Len(poly)}
    IN  (\A x \in sides : x >= 0) \/ (\A x \in sides : x <= 0)

\* p/2 lies in the closed rectangle of detection d.
InBox(p, d) ==
    /\ 2 * d.x_min <= p[1] /\ p[1] <= 2 * d.x_max
    /\ 2 * d.y_min <= p[2] /\ p[2] <= 2 * d.y_max

\* The closed rectangle of d and the closed polygon share a point.
SharePoint(d, poly) == \E p \in HalfPoints : InBox(p, d) /\ InPolygon(p, poly)

\* C8: a detection whose label is not, letter for letter, in the valid-label
\* list is rejected whatever the ROI, and one whose label is in it is
\* accepted when no ROI is given, whatever its box and confidence.
C8_LabelRule ==
    verdict # None =>
        LET v == verdict[1]
            valid == v.detection.label \in Range(VALID_DETECTION_LABELS)
        IN  /\ ~valid => ~v.accepted
            /\ (valid /\ v.roi = None) => v.accepted

\* "Cat" is rejected, without ROI, where "cat" is a valid label.
C8_Witness ==
    /\ verdict # None
    /\ verdict[1].detection.label = <<"C","a","t">>
    /\ <<"c","a","t">> \in Range(VALID_DETECTION_LABELS)
    /\ verdict[1].roi = None
    /\ ~verdict[1].accepted

\* C9: with a ROI, a detection of valid label is accepted if and only if its
\* closed rectangle and the closed polygon share a point, a rectangle of no
\* width or no height included.
C9_RoiRule ==
    verdict # None =>
        LET v == verdict[1]
        IN  (/\ v.detection.label \in Range(VALID_DETECTION_LABELS)
             /\ v.roi # None)
                => (v.accepted <=> SharePoint(v.detection, v.roi[1]))

\* A box of no width that touches the square ROI along its left edge only
\* is accepted.
C9_Witness ==
    /\ verdict # None
    /\ verdict[1].roi = Some(<< <<1,1>>, <<3,1>>, <<3,3>>, <<1,3>> >>)
    /\ verdict[1].detection.x_min = 1
    /\ verdict[1].detection.x_max = 1
    /\ verdict[1].detection.y_min = 0
    /\ verdict[1].detection.y_max = 2
    /\ verdict[1].accepted

\* ------------------------------------------------------------------------
\* Properties of the scan
\* ------------------------------------------------------------------------

Returned == pc = "returned"
Accepted == Returned /\ result[1].accepted
Rejected == Returned /\ ~result[1].accepted

\* The sample indices 1, 16, 31, ... up to n.
SampleIndices(n) == {i \in 1..n : IsSampleIndex(i)}

\* The calls of the detector are on the sample indices 1, 16, 31, ..., in
\* this order, none left out and none twice, all of frames of the stream.
CallsOnSamples ==
    \A i \in 1..Len(calls) :
        /\ calls[i].index = 1 + 15 * (i - 1)
        /\ calls[i].index <= frame_count

\* C1: the detector is invoked on exactly the frames of index 1, 16, 31,
\* ..., in increasing order and each at most once, and on no other frame;
\* a scan that accepts has stopped at the first sample whose response has an
\* accepted detection, a scan that rejects has analysed every sample index
\* up to the length of the stream, and a scan that a failure ends has
\* invoked the detector on no sample after the failing one.
C1_Stride ==
    /\ CallsOnSamples
    /\ Accepted =>
          /\ calls # <<>>
          /\ calls[Len(calls)].index = sampled_hit
    /\ Rejected => Len(calls) = Cardinality(SampleIndices(frame_count))
    /\ pc = "raised" =>
          video.pos = IF raised = Some(EncodeError)
                      THEN 1 + 15 * Len(calls)
                      ELSE calls[Len(calls)].index

\* A scan of a stream longer than two strides that ran to rejection: the
\* detector was called on frames 1, 16 and 31.
C1_Witness ==
    /\ Rejected
    /\ frame_count > 31
    /\ Len(calls) = 3
    /\ calls[3].index = 31

\* C2: a scan that accepts returns the sampled frame of lowest index whose
\* response has an accepted detection, with that frame's whole response,
\* and has read no frame and called the detector on none after it; a scan of
\* a 40-frame stream, without ROI, whose only hit is frame 16 returns
\* (true, frame 16, the response of frame 16).
C2_EarlyExit ==
    /\ Accepted =>
          /\ result[1].frame # None
          /\ result[1].response # None
          /\ LET f == result[1].frame[1]
             IN  /\ IsSampleIndex(f.index)
                 /\ f.index = sampled_hit
                 /\ result[1].response[1] = f.scene
                 /\ FirstAccepted(f.scene, roi) # 0
                 /\ video.reads = f.index
                 /\ video.pos = f.index
                 /\ calls[Len(calls)].index = f.index
                 /\ calls[Len(calls)].error = ""
    /\ (Returned /\ frame_count = 40 /\ roi = None /\ sampled_hit = 16) =>
          /\ result[1].accepted
          /\ result[1].frame[1].index = 16
          /\ result[1].response[1] = result[1].frame[1].scene

\* The 40-frame stream whose frame 16 is accepted on the second of three
\* detections: the whole response comes back.
C2_Witness ==
    /\ Accepted
    /\ frame_count = 40
    /\ roi = None
    /\ ~off_sample_hit
    /\ result[1].frame[1].index = 16
    /\ Len(result[1].response[1]) = 3
    /\ FirstAccepted(result[1].response[1], roi) = 2

\* C3: a scan that returns a result rejects, with (false, None, None), if
\* and only if no frame at a sample index of the stream has a response with
\* an accepted detection; an accepted detection in a frame off the sample
\* indices does not make the scan accept.
C3_RejectionOnExhaustion ==
    Returned =>
        /\ ~result[1].accepted <=> sampled_hit = 0
        /\ ~result[1].accepted =>
              /\ result[1] = [accepted |-> FALSE, frame |-> None,
                              response |-> None]
              /\ video.pos = frame_count
        /\ result[1].accepted => IsSampleIndex(result[1].frame[1].index)

\* A rejected stream that has an acceptable detection, in a frame that is
\* not sampled.
C3_Witness ==
    /\ Rejected
    /\ off_sample_hit
    /\ frame_count > 16

\* C4: a call that returns a result has released its stream exactly once,
\* and no stream is ever released twice or read after its release.
C4_ReleasedOnceOnReturn ==
    /\ Returned => video.released = 1
    /\ video.released <= 1
    /\ ~video.read_after_release

\* An accepting return after reads past the first stride.
C4_Witness ==
    /\ Accepted
    /\ video.released = 1
    /\ video.reads = 16

\* C5: a scan that ends in a failure, of the detection capability or of the
\* encoding of a frame, has released its stream.
C5_ReleasedOnError == pc = "raised" => video.released >= 1

\* C6: when the first read fails the scan logs an error, raises nothing,
\* never calls the detector, reads no more and returns (false, None, None).
C6_UnreadableStream ==
    (pc # "idle" /\ video.pos = 0) =>
        /\ pc \in {"while", "returned"}
        /\ raised = None
        /\ calls = <<>>
        /\ video.reads = 1
        /\ \E i \in 1..Len(log) : log[i].level = "error"
        /\ Returned =>
              result[1] = [accepted |-> FALSE, frame |-> None,
                           response |-> None]

\* The scan of an unreadable stream has returned.
C6_Witness ==
    /\ Returned
    /\ frame_count = 0
    /\ video.reads = 1

\* C7: once the detector has failed on a frame it is not called again, no
\* frame is read any more, no result is returned and the caller gets the
\* detector's own failure.
C7_DetectorFailurePropagates ==
    \A i \in 1..Len(calls) :
        calls[i].error # "" =>
            /\ i = Len(calls)
            /\ pc = "raised"
            /\ raised = Some(calls[i].error)
            /\ result = None
            /\ video.reads = calls[i].index

\* The detector failed on its second call, on frame 16.
C7_Witness ==
    /\ pc = "raised"
    /\ Len(calls) = 2
    /\ calls[2].error = "Timeout"
    /\ raised = Some("Timeout")

\* ------------------------------------------------------------------------
\* The making of an instance and its names (lines 18-32 and 54-69)
\* ------------------------------------------------------------------------

\* ReolinkVideo(path, filename, extension), for a file found and not yet
\* given an instance.  When split_reolink_filename raises there is no
\* instance.
Construct ==
    /\ pc \in {"idle", "returned", "raised"}
    /\ \E f \in found :
          /\ \A i \in 1..Len(clips) :
                VideoFile(clips[i].path, clips[i].filename,
                          clips[i].extension) # f
          /\ LET out == split_reolink_filename(f.filename)
             IN  /\ split' = Some([filename |-> f.filename, outcome |-> out])
                 /\ clips' = IF out.raised = None
                             THEN Append(clips, Instance(f, out.value[1]))
                             ELSE clips
    /\ UNCHANGED <<environ, VALID_DETECTION_LABELS, verdict, found, friendly,
                   disk, moves, export, scan_vars>>

\* The decimal digits of n >= 0.
RECURSIVE Decimal(_)
Decimal(n) ==
    IF n < 10 THEN <<Digits[n + 1]>>
    ELSE Decimal(n \div 10) \o <<Digits[(n % 10) + 1]>>

RECURSIVE ZeroPad(_, _)
ZeroPad(str, width) ==
    IF Len(str) < width THEN ZeroPad(<<"0">> \o str, width) ELSE str

\* What strftime gives for %Y: four digits, but the C library decides for a
\* year below 1000, and glibc writes it without leading zeros.
YearTexts(year) == {ZeroPad(Decimal(year), 4), Decimal(year)}

\* Lines 54-56: timestamp.strftime("%Y-%m-%d %H-%M-%S"), the texts it may
\* give.
friendly_timestamp(timestamp) ==
    { y \o <<"-">> \o ZeroPad(Decimal(timestamp.month), 2)
        \o <<"-">> \o ZeroPad(Decimal(timestamp.day), 2)
        \o <<" ">> \o ZeroPad(Decimal(timestamp.hour), 2)
        \o <<"-">> \o ZeroPad(Decimal(timestamp.minute), 2)
        \o <<"-">> \o ZeroPad(Decimal(timestamp.second), 2) :
      y \in YearTexts(timestamp.year) }

\* Lines 66-69: friendly_filename(extension), the names it may give.
friendly_filename(self, extension) ==
    LET ext == IF extension = None THEN self.extension ELSE extension[1]
    IN  { t \o <<" ", "(">> \o self.camera_name \o <<")", ".">> \o ext :
          t \in friendly_timestamp(self.timestamp) }

\* One call of friendly_filename on the first instance.
FriendlyFilename ==
    /\ pc \in {"idle", "returned", "raised"}
    /\ clips # <<>>
    /\ friendly = None
    /\ \E extension \in ExtensionArgs :
          \E name \in friendly_filename(clips[1], extension) :
              friendly' = Some([extension |-> extension, name |-> name])
    /\ UNCHANGED <<environ, VALID_DETECTION_LABELS, verdict, split, found,
                   clips, disk, moves, export, scan_vars>>

\* The files of a set of video files, each holding its own recording.
FilesOf(videos) ==
    { File(join(f.path, f.filename \o <<".">> \o f.extension), f.filename) :
      f \in videos }

\* One video file is found, of any filename; CAMERA_1 is set or is not.
InitFriendly ==
    /\ \E labels \in LabelEnvs, camera \in {None, Some(DefaultCamera)} :
          /\ environ = Environ(labels, camera)
          /\ VALID_DETECTION_LABELS = RSplit(labels, <<",", " ">>, -1)
    /\ verdict = None
    /\ split = None
    /\ \E filename \in Filenames, extension \in Extensions :
          found = {VideoFile(SourceDir, filename, extension)}
    /\ disk = FilesOf(found)
    /\ clips = <<>>
    /\ friendly = None
    /\ moves = <<>>
    /\ export = None
    /\ frame_count = 0
    /\ ScanIdle

NextFriendly ==
    \/ Construct
    \/ FriendlyFilename

SpecFriendly == InitFriendly /\ [][NextFriendly]_vars

\* A timestamp of 14 digits, YYYYMMDDHHMMSS, that names a date and a time,
\* and the datetime it names.
StampNumber(t, i) == 10 * DigitValue(t[i]) + DigitValue(t[i + 1])

StampYear(t) == 100 * StampNumber(t, 1) + StampNumber(t, 3)

IsStamp14(t) ==
    /\ Len(t) = 14
    /\ \A i \in 1..14 : IsDigit(t[i])
    /\ StampYear(t) >= 1
    /\ StampNumber(t, 5) \in 1..12
    /\ StampNumber(t, 7) \in 1..DaysIn(StampYear(t), StampNumber(t, 5))
    /\ StampNumber(t, 9) \in 0..23
    /\ StampNumber(t, 11) \in 0..59
    /\ StampNumber(t, 13) \in 0..59

StampTime(t) ==
    DateTime(StampYear(t), StampNumber(t, 5), StampNumber(t, 7),
             StampNumber(t, 9), StampNumber(t, 11), StampNumber(t, 13))

\* "YYYY-MM-DD HH-MM-SS (<name>).<ext>", with the digits of stamp t.
FriendlyText(t, name, ext) ==
    SubSeq(t, 1, 4) \o <<"-">> \o SubSeq(t, 5, 6) \o <<"-">>
        \o SubSeq(t, 7, 8) \o <<" ">> \o SubSeq(t, 9, 10) \o <<"-">>
        \o SubSeq(t, 11, 12) \o <<"-">> \o SubSeq(t, 13, 14)
        \o <<" ", "(">> \o name \o <<")", ".">> \o ext

\* The instance of a file <name>_<num>_<t> has the fields name, num and the
\* time of t, and the friendly name asked of it, for the stamps t of year
\* from_year on, is the text above.
ParsedAndNamed(from_year) ==
    \A n \in CameraNames, c \in CameraNums, t \in Stamps :
        (/\ IsStamp14(t)
         /\ clips # <<>>
         /\ clips[1].filename = n \o <<"_">> \o c \o <<"_">> \o t)
            => /\ clips[1].camera_name = n
               /\ clips[1].camera_num = c
               /\ clips[1].timestamp = StampTime(t)
               /\ (friendly # None /\ StampYear(t) >= from_year) =>
                     friendly[1].name =
                        FriendlyText(t, n,
                                     IF friendly[1].extension = None
                                     THEN clips[1].extension
                                     ELSE friendly[1].extension[1])

\* C11, as stated: for every filename <name>_<num>_<ts> with a valid
\* 14-digit timestamp, the name possibly holding "_", the fields are (name,
\* num, ts) and friendly_filename is "YYYY-MM-DD HH-MM-SS (<name>).<ext>",
\* <ext> being the argument when given and the extension of the instance
\* otherwise.
C11_ParseAndFriendlyName == ParsedAndNamed(0)

\* C11, amended: the same, the friendly name being claimed for the
\* timestamps of year 1000 and later only.
C11_ParseAndFriendlyNameFrom1000 == ParsedAndNamed(1000)

\* The friendly name of "F_D_01_20210511082721", asked with extension jpg.
C11_Witness ==
    /\ clips # <<>>
    /\ clips[1].filename =
          <<"F", "_", "D", "_", "0", "1", "_",
            "2","0","2","1","0","5","1","1","0","8","2","7","2","1">>
    /\ clips[1].camera_name = <<"F", "_", "D">>
    /\ friendly # None
    /\ friendly[1].extension = Some(<<"j", "p", "g">>)
    /\ friendly[1].name =
          <<"2","0","2","1","-","0","5","-","1","1"," ",
            "0","8","-","2","7","-","2","1"," ","(","F","_","D",")",".",
            "j","p","g">>

\* ------------------------------------------------------------------------
\* The operations on an instance (move and save_images_from_frame, lines
\* 138-154)
\* ------------------------------------------------------------------------

\* The directory videos are moved to.
TargetDir == <<"o", "u", "t">>

\* os.rename(src, dst) on the files of a disk: the outcomes it may have.  A
\* source that is not there is an error; a destination that is there is
\* replaced where the system is POSIX and is an error where it is Windows.
\* replaced is Some of the content that is lost.
OsRename(files, src, dst) ==
    LET at(p) == {f \in files : f.path = p}
        moved == (files \ (at(src) \cup at(dst)))
                    \cup {File(dst, f.content) : f \in at(src)}
    IN  IF at(src) = {}
        THEN {[files |-> files, error |-> "FileNotFoundError",
               replaced |-> None]}
        ELSE IF at(dst) = {} \/ src = dst
        THEN {[files |-> moved, error |-> "", replaced |-> None]}
        ELSE {[files |-> moved, error |-> "",
               replaced |-> Some((CHOOSE f \in at(dst) : TRUE).content)],
              [files |-> files, error |-> "FileExistsError",
               replaced |-> None]}

\* A variant of MovedInstance that has the instance follow its file.
MovedInstanceFollowing(self, target_path) ==
    [self EXCEPT !.path = target_path]

\* Lines 138-140: the instance after move(target_path); no attribute is
\* assigned.
MovedInstance(self, target_path) == self

\* The calls of move a behaviour has at most.
MaxMoves == 2

\* Lines 138-140: move(TargetDir) on an instance.
Move ==
    /\ pc \in {"idle", "returned", "raised"}
    /\ Len(moves) < MaxMoves
    /\ \E i \in 1..Len(clips) :
          \E name \in friendly_filename(clips[i], None) :
             LET src == full_path(clips[i])
                 dst == join(TargetDir, name)
             IN  \E out \in OsRename(disk, src, dst) :
                    /\ disk' = out.files
                    /\ moves' = Append(moves,
                                       [clip |-> i, src |-> src, dst |-> dst,
                                        error |-> out.error,
                                        replaced |-> out.replaced])
                    /\ clips' = [clips EXCEPT
                                    ![i] = MovedInstance(@, TargetDir)]
    /\ UNCHANGED <<environ, VALID_DETECTION_LABELS, verdict, split, found,
                   friendly, export, scan_vars>>

\* The lists of output paths a caller gives.
OutputLists ==
    { <<>>,
      <<"a.jpg">>,
      <<"a.jpg", "gone/b.jpg", "c.jpg">>,
      <<"a.jpg", "d.xyz", "c.jpg">> }

\* cv2.imwrite(output, frame): it writes the file and returns True, or
\* cannot write it (here: the directory is not there) and returns False, or
\* raises cv2.error (here: no encoder for the extension).
imwrite(output) ==
    CASE output = "gone/b.jpg" -> "False"
      [] output = "d.xyz" -> "cv2.error"
      [] OTHER -> "True"

\* Lines 153-154: the for loop over outputs.  It ends at the first call of
\* cv2.imwrite that raises; what a call returns is not looked at.
WriteImages(outputs) ==
    LET raising == {i \in 1..Len(outputs) : imwrite(outputs[i]) = "cv2.error"}
        last == IF raising = {} THEN Len(outputs)
                ELSE (CHOOSE i \in raising : \A j \in raising : i <= j) - 1
        tried == SubSeq(outputs, 1, last)
        Wrote(o) == imwrite(o) = "True"
        Failed(o) == imwrite(o) = "False"
    IN  [written |-> SelectSeq(tried, Wrote),
         unwritten |-> SelectSeq(tried, Failed),
         raised |-> IF raising = {} THEN None ELSE Some("cv2.error")]

\* Lines 142-154: save_images_from_frame(frame, deepstack_response,
\* outputs, draw_roi, roi), given the frame and the response of an accepting
\* scan.
SaveImagesFromFrame ==
    /\ pc = "returned"
    /\ result[1].accepted
    /\ export = None
    /\ \E outputs \in OutputLists, draw_roi \in BOOLEAN, r \in {None, roi} :
          export' = Some([frame |-> result[1].frame[1],
                          deepstack_response |-> result[1].response[1],
                          outputs |-> outputs,
                          draw_roi |-> draw_roi,
                          roi |-> r,
                          roi_drawn |-> (draw_roi = TRUE /\ r # None),
                          images |-> WriteImages(outputs)])
    /\ UNCHANGED <<environ, VALID_DETECTION_LABELS, verdict, split, found,
                   clips, friendly, disk, moves, scan_vars>>

\* One call of _is_accepted_detection on an instance, outside a scan.
IsAcceptedDetection ==
    /\ pc \in {"idle", "returned", "raised"}
    /\ verdict = None
    /\ \E d \in {CatInside, CatOutside}, r \in ScanRois :
          verdict' = Some([detection |-> d, roi |-> r,
                           accepted |-> _is_accepted_detection(d, r)])
    /\ UNCHANGED <<environ, VALID_DETECTION_LABELS, split, clip_vars,
                   scan_vars>>

\* The filenames of the videos found: two that differ in the camera number,
\* one of another time, and two that are not of the pattern.
ClipFilenames ==
    { <<"F", "_", "0", "1", "_",
        "2","0","2","1","0","5","1","1","0","8","2","7","2","1">>,
      <<"F", "_", "0", "2", "_",
        "2","0","2","1","0","5","1","1","0","8","2","7","2","1">>,
      <<"F", "_", "0", "1", "_",
        "2","0","2","1","0","5","1","1","0","8","2","7","2","2">>,
      <<"a">>,
      <<"b">> }

\* The frames of the video of an instance.
ClipFrameCounts == {0, 2}

\* The state after the construction of the instance of one video file.
InitClip ==
    /\ \E labels \in LabelEnvs, camera \in {None, Some(DefaultCamera)} :
          /\ environ = Environ(labels, camera)
          /\ VALID_DETECTION_LABELS = RSplit(labels, <<",", " ">>, -1)
    /\ verdict = None
    /\ \E filename \in ClipFilenames, extension \in Extensions :
          LET f == VideoFile(SourceDir, filename, extension)
              out == split_reolink_filename(filename)
          IN  /\ out.raised = None
              /\ found = {f}
              /\ split = Some([filename |-> filename, outcome |-> out])
              /\ clips = <<Instance(f, out.value[1])>>
    /\ disk = FilesOf(found)
    /\ friendly = None
    /\ moves = <<>>
    /\ export = None
    /\ frame_count \in ClipFrameCounts
    /\ ScanIdle

NextClip ==
    \/ Start
    \/ Reject
    \/ NotTarget
    \/ EncodeFails
    \/ DetectFails
    \/ Accept
    \/ NoAccept
    \/ Advance
    \/ IsAcceptedDetection
    \/ FriendlyFilename
    \/ Move
    \/ SaveImagesFromFrame

SpecClip == InitClip /\ [][NextClip]_vars

\* The state after the construction of the instances of two video files of
\* different filenames and one extension.
InitMove ==
    /\ \E labels \in LabelEnvs, camera \in {None, Some(DefaultCamera)} :
          /\ environ = Environ(labels, camera)
          /\ VALID_DETECTION_LABELS = RSplit(labels, <<",", " ">>, -1)
    /\ verdict = None
    /\ \E filename1 \in ClipFilenames, filename2 \in ClipFilenames,
          extension \in Extensions :
          LET f1 == VideoFile(SourceDir, filename1, extension)
              f2 == VideoFile(SourceDir, filename2, extension)
              out1 == split_reolink_filename(filename1)
              out2 == split_reolink_filename(filename2)
          IN  /\ filename1 # filename2
              /\ out1.raised = None
              /\ out2.raised = None
              /\ found = {f1, f2}
              /\ split = Some([filename |-> filename2, outcome |-> out2])
              /\ clips = <<Instance(f1, out1.value[1]),
                           Instance(f2, out2.value[1])>>
    /\ disk = FilesOf(found)
    /\ friendly = None
    /\ moves = <<>>
    /\ export = None
    /\ frame_count = 0
    /\ ScanIdle

NextMove == Move

SpecMove == InitMove /\ [][NextMove]_vars

\* C12: a call of save_images_from_frame in which the writing of the image
\* fails for one of the output paths fails with an error; it does not return
\* after a failed write.
C12_FailedWriteRaises ==
    (export # None /\ export[1].images.unwritten # <<>>)
        => export[1].images.raised # None

\* C18: two instances made of different filenames, of one extension, have
\* different friendly names, so that the moves of several instances into
\* one directory never take two of them to the same path and never replace
\* a file moved there before; the filenames that are not of the pattern and
\* those that differ in the camera number are among them.
C18_DistinctDestinations ==
    /\ \A i \in 1..Len(clips), j \in 1..Len(clips) :
          (/\ clips[i].filename # clips[j].filename
           /\ clips[i].extension = clips[j].extension)
              => friendly_filename(clips[i], None)
                    \cap friendly_filename(clips[j], None) = {}
    /\ \A k \in 1..Len(moves) :
          /\ moves[k].replaced = None
          /\ moves[k].error # "FileExistsError"
          /\ \A j \in 1..Len(moves) :
                moves[j].clip # moves[k].clip => moves[j].dst # moves[k].dst

\* ------------------------------------------------------------------------
\* More properties of the scan
\* ------------------------------------------------------------------------

\* C13: the frames are read in the order of the stream, one position a read
\* and none twice: the frame a read gives is the one at the position of the
\* read, and the reads made are the frames read plus the one read that
\* found the end.  Every frame up to the accepted one is read and only the
\* frames of the sample indices are analysed: a scan that accepts at frame k
\* has made k reads, and one that exhausts a stream of N frames N + 1.
C13_SequentialDecoding ==
    /\ video.pos <= frame_count
    /\ frame # None => frame[1].index = video.pos
    /\ pc \in {"while", "advance", "raised"} =>
          video.reads = video.pos + (IF read_ok THEN 0 ELSE 1)
    /\ \A i \in 1..Len(calls) :
          /\ IsSampleIndex(calls[i].index)
          /\ calls[i].index <= video.pos
    /\ Accepted =>
          /\ video.reads = result[1].frame[1].index
          /\ video.pos = video.reads
    /\ Rejected =>
          /\ video.reads = frame_count + 1
          /\ video.pos = frame_count

\* A scan that accepts at frame 16: 16 reads, two of them analysed.
C13_Witness ==
    /\ Accepted
    /\ result[1].frame[1].index = 16
    /\ video.reads = 16
    /\ Len(calls) = 2

\* A detection with a valid label and, when the scan has an ROI, a box
\* that meets it.
ValidInRoi(d) ==
    /\ d.label \in Range(VALID_DETECTION_LABELS)
    /\ roi # None => _detection_in_roi(d, roi[1])

\* C15: every call of the detector is given the min_confidence of the
\* caller, and the scan does not look at the confidence of a detection: the
\* verdict on a detection of a response is the same whatever its
\* confidence, and a response with a detection of a valid label, in the ROI
\* when there is one, is accepted, below min_confidence as well.
C15_ConfidenceIsNotFiltered ==
    /\ \A i \in 1..Len(calls) : calls[i].min_confidence = min_confidence
    /\ response # None =>
          /\ \A i \in 1..Len(response[1]) :
                \A c \in Confidences \cup MinConfidences :
                    _is_accepted_detection(
                        [response[1][i] EXCEPT !.confidence = c], roi)
                      = _is_accepted_detection(response[1][i], roi)
          /\ (\E i \in 1..Len(response[1]) : ValidInRoi(response[1][i]))
                => /\ Accepted
                   /\ result[1].response = response

\* A scan that accepts on a detection whose confidence is below
\* min_confidence.
C15_Witness ==
    /\ Accepted
    /\ LET detections == result[1].response[1]
       IN  /\ detections[FirstAccepted(detections, roi)].confidence
                 < min_confidence
           /\ \A i \in 1..Len(detections) :
                 ValidInRoi(detections[i]) =>
                    detections[i].confidence < min_confidence

\* ceil(n / 15)
CeilSkip(n) == (n + 14) \div 15

\* The scan has ended, with a result or with a failure.
Ended == pc \in {"returned", "raised"}

\* C17: a scan of a stream of N frames ends, with a result or with a
\* failure that propagates; it calls the detector ceil(N / 15) times at
\* most, and exactly so many times when it rejects.
C17_TerminatesWithinCallBound ==
    /\ <>Ended
    /\ [](/\ Len(calls) <= CeilSkip(frame_count)
          /\ Rejected => Len(calls) = CeilSkip(frame_count))

\* A scan of 31 frames that rejects after 3 calls, and not fewer.
C17_Witness ==
    /\ Rejected
    /\ frame_count = 31
    /\ Len(calls) = 3
    /\ CeilSkip(30) = 2

\* C19: whenever the condition of the loop is evaluated, current_frame is
\* the number of reads made so far, target_frame is 1 + 15k for some k, and
\* current_frame <= target_frame <= current_frame + 14: the target is never
\* behind the frame in hand and no sample index is passed over.
C19_LoopCounters ==
    pc = "while" =>
       /\ current_frame = video.reads
       /\ target_frame % 15 = 1
       /\ current_frame <= target_frame
       /\ target_frame <= current_frame + 14

\* The loop condition evaluated on frame 17, the target being frame 31.
C19_Witness ==
    /\ pc = "while"
    /\ read_ok
    /\ current_frame = 17
    /\ target_frame = 31

\* ------------------------------------------------------------------------
\* More properties of the classifier
\* ------------------------------------------------------------------------

\* The items of a list joined by commas, with or without a space after a
\* comma.
RECURSIVE CommaItems(_)
CommaItems(list) ==
    LET commas == {i \in 1..Len(list) : list[i] = ","}
        Item(str) == IF str # <<>> /\ str[1] = " " THEN Tail(str) ELSE str
    IN  IF commas = {} THEN {Item(list)}
        ELSE LET i == CHOOSE c \in commas : \A d \in commas : c <= d
             IN  {Item(SubSeq(list, 1, i - 1))}
                    \cup CommaItems(SubSeq(list, i + 1, Len(list)))

\* C14: the valid labels are the items of the list of the environment, the
\* list being joined by commas with or without a space after each, so that
\* a detection is accepted without ROI exactly when its label is one of the
\* items; the set is the one computed at the start.
C14_LabelsAreTheItems ==
    /\ Range(VALID_DETECTION_LABELS)
          = CommaItems(environ.VALID_DETECTION_LABELS)
    /\ (verdict # None /\ verdict[1].roi = None) =>
          (verdict[1].accepted <=>
              verdict[1].detection.label
                  \in CommaItems(environ.VALID_DETECTION_LABELS))

\* ------------------------------------------------------------------------
\* Properties of the instance
\* ------------------------------------------------------------------------

\* The instance as __init__ made it of the file found.
AsConstructed ==
    LET f == CHOOSE g \in found : TRUE
    IN  Instance(f, split[1].outcome.value[1])

\* C16: after construction no call of is_accepted, _is_accepted_detection,
\* friendly_filename, move or save_images_from_frame changes path, filename,
\* extension, camera_name, camera_num or timestamp of the instance, nor the
\* ROI or the detections of a response it is given; after a move that
\* succeeds full_path is still the place the file was at, where there is
\* no file any more.
C16_Immutable ==
    /\ clips = <<AsConstructed>>
    /\ pc # "idle" => roi \in ScanRois
    /\ response # None => response[1] \in Scenes
    /\ Accepted =>
          /\ result[1].response = response
          /\ result[1].frame[1].scene = response[1]
    /\ verdict # None =>
          /\ verdict[1].detection \in {CatInside, CatOutside}
          /\ verdict[1].roi \in ScanRois
    /\ export # None =>
          /\ export[1].deepstack_response = response[1]
          /\ export[1].roi \in {None, roi}
    /\ \A k \in 1..Len(moves) :
          moves[k].error = "" =>
             /\ full_path(clips[moves[k].clip]) = moves[k].src
             /\ moves[k].dst # moves[k].src
             /\ ~\E f \in disk : f.path = full_path(clips[moves[k].clip])
             /\ \E f \in disk : f.path = moves[k].dst
             /\ \A j \in (k + 1)..Len(moves) :
                   moves[j].error = "FileNotFoundError"

\* An instance that every operation was called on, the move with success.
C16_Witness ==
    /\ Accepted
    /\ verdict # None
    /\ friendly # None
    /\ export # None
    /\ Len(moves) = 2
    /\ moves[1].error = ""
    /\ clips[1].path = SourceDir

====
